---- MODULE Spec2Model ----
(***************************************************************************)
(* Model of tutor/plugins.py: the plugin catalog (official plugins first,  *)
(* then entrypoint plugins, deduplicated by name), the registry built from *)
(* a configuration (patches, hooks, template roots), the process-wide      *)
(* cache of Plugins, and the enable/disable helpers that edit              *)
(* config["PLUGINS"].                                                      *)
(*                                                                         *)
(* Plugin names are integers, ordered as Python orders the strings they    *)
(* stand for ("A" < "B" < ...).  A Python dict is a sequence               *)
(* of <<key, value>> pairs in insertion order; a dict keyed by patch or    *)
(* hook name, whose order the code never observes, is a function.          *)
(***************************************************************************)
EXTENDS Integers, Sequences, FiniteSets, TLC

\* ------------------------------------------------------------------ bounds
\* longest PLUGINS list a configuration starts with
MaxLen == 3
\* longest OfficialPlugin.INSTALLED
MaxInstalled == 2
\* most entrypoints advertised at a time
MaxEntrypoints == 1

\* the plugin names a configuration may list: "A", "B" and "C"
Names == {1, 2, 3}
\* the names a plugin exists for; "C" is listed by users but never installed:
\* it has no tutorC.plugin module and the object of its entrypoint does not load
Packaged == {1, 2}
PatchNames == {"p1", "p2"}
HookNames == {"init", "build"}
\* Python's None where a registry is expected
None == [none |-> TRUE]

VARIABLES
    config,       \* the content of the caller's configuration object: [has, plugins]
    INSTALLED,    \* OfficialPlugin.INSTALLED, in registration order
    entrypoints,  \* what pkg_resources.iter_entry_points yields, in order
    PluginsINSTANCE,  \* the cache held by class Plugins: None or a registry
    last,         \* the last call: what it was and what it saw
    lastOn,       \* per plugin name, the last enable/disable that returned
    threads       \* per thread inside Plugins.instance: where it is, what it holds

vars == <<config, INSTALLED, entrypoints, PluginsINSTANCE, last, lastOn, threads>>

\* ------------------------------------------------------- sequences, dicts
Range(s) == {s[i] : i \in 1..Len(s)}

Contains(s, x) == \E i \in 1..Len(s) : s[i] = x

Count(s, x) == Cardinality({i \in 1..Len(s) : s[i] = x})

IsSorted(s) == \A i \in 1..(Len(s) - 1) : s[i] <= s[i + 1]

NoDuplicates(s) == \A i, j \in 1..Len(s) : s[i] = s[j] => i = j

\* list.sort(): ascending, by insertion
RECURSIVE InsertSorted(_, _)
InsertSorted(x, s) ==
    IF s = <<>> THEN <<x>>
    ELSE IF x < Head(s) THEN <<x>> \o s
    ELSE <<Head(s)>> \o InsertSorted(x, Tail(s))

RECURSIVE Sort(_)
Sort(s) == IF s = <<>> THEN <<>> ELSE InsertSorted(Head(s), Sort(Tail(s)))

\* list.remove(x): drops the first occurrence of x
RECURSIVE RemoveFirst(_, _)
RemoveFirst(s, x) ==
    IF s = <<>> THEN <<>>
    ELSE IF Head(s) = x THEN Tail(s)
    ELSE <<Head(s)>> \o RemoveFirst(Tail(s), x)

\* the elements of s other than x, in order
Without(s, x) == SelectSeq(s, LAMBDA y : y # x)

DictKeys(d) == [i \in 1..Len(d) |-> d[i][1]]

DictHas(d, k) == \E i \in 1..Len(d) : d[i][1] = k

DictGet(d, k) == d[CHOOSE i \in 1..Len(d) : d[i][1] = k][2]

\* d[k] = v: a new key goes last, an existing key keeps its place
DictSet(d, k, v) ==
    IF DictHas(d, k)
    THEN [i \in 1..Len(d) |-> IF d[i][1] = k THEN <<k, v>> ELSE d[i]]
    ELSE Append(d, <<k, v>>)

\* ------------------------------------------------------ plugin descriptors
\* What the loaded objects expose.  An official plugin's module and an
\* entrypoint's object of the same name are different objects, so they
\* contribute different content.  templates <<>> stands for no templates.
OfficialModule(name) ==
    [patches |-> [p \in (IF name % 2 = 0 THEN {"p1", "p2"} ELSE {"p1"}) |->
                      <<"official", name, p>>],
     hooks |-> [h \in {"init"} |-> <<"official", name, h>>],
     templates |-> IF name % 2 = 1 THEN <<"official", name>> ELSE <<>>]

EntrypointObject(name) ==
    [patches |-> [p \in {"p1"} |-> <<"entrypoint", name, p>>],
     hooks |-> [h \in (IF name % 2 = 0 THEN {"init", "build"} ELSE {"build"}) |->
                    <<"entrypoint", name, h>>],
     templates |-> <<"entrypoint", name>>]

BasePlugin(class, name, obj) ==
    [class |-> class,
     name |-> name,
     patches |-> obj.patches,
     hooks |-> obj.hooks,
     templates_root |-> obj.templates]

\* importlib.import_module("tutor{}.plugin".format(name)) finds the module
HasModule(name) == name \in Packaged

\* entrypoint.load() returns the object
Loads(entrypoint) == entrypoint \in Packaged

OfficialPlugin(name) == BasePlugin("OfficialPlugin", name, OfficialModule(name))

EntrypointPlugin(entrypoint) ==
    BasePlugin("EntrypointPlugin", entrypoint, EntrypointObject(entrypoint))

\* ------------------------------------------------------------ the catalog
OfficialPlugin_iter_installed == INSTALLED

\* cls(entrypoint) raises at the first entrypoint whose object does not load
EntrypointPlugin_iter_installed_raises ==
    \E i \in 1..Len(entrypoints) : ~Loads(entrypoints[i])

\* the entrypoints yielded before the iteration ends or raises
LoadedEntrypoints ==
    IF EntrypointPlugin_iter_installed_raises
    THEN SubSeq(entrypoints, 1,
                (CHOOSE i \in 1..Len(entrypoints) :
                    /\ ~Loads(entrypoints[i])
                    /\ \A j \in 1..(i - 1) : Loads(entrypoints[j])) - 1)
    ELSE entrypoints

EntrypointPlugin_iter_installed ==
    [i \in 1..Len(LoadedEntrypoints) |-> EntrypointPlugin(LoadedEntrypoints[i])]

\* the loop body of Plugins.iter_installed: yield a plugin whose name was
\* not yielded before
RECURSIVE DedupByName(_, _)
DedupByName(plugins, installed_plugin_names) ==
    IF plugins = <<>> THEN <<>>
    ELSE IF Head(plugins).name \in installed_plugin_names
         THEN DedupByName(Tail(plugins), installed_plugin_names)
         ELSE <<Head(plugins)>>
              \o DedupByName(Tail(plugins),
                             installed_plugin_names \cup {Head(plugins).name})

\* Plugins.iter_installed with classes = [EntrypointPlugin, OfficialPlugin]
Plugins_iter_installed_entrypoints_first ==
    DedupByName(EntrypointPlugin_iter_installed \o OfficialPlugin_iter_installed, {})

Plugins_iter_installed ==
    DedupByName(OfficialPlugin_iter_installed \o EntrypointPlugin_iter_installed, {})

\* the iteration raises after the plugins of Plugins_iter_installed: the
\* official source yields objects it holds, the entrypoint source loads
Plugins_iter_installed_raises == EntrypointPlugin_iter_installed_raises

iter_installed == Plugins_iter_installed

is_installed(name) ==
    LET plugin_names == [i \in 1..Len(iter_installed) |-> iter_installed[i].name]
    IN Contains(plugin_names, name)

\* ------------------------------------------------------- the configuration
\* config.get(CONFIG_KEY, [])
ConfigGet(c) == IF c.has THEN c.plugins ELSE <<>>

is_enabled(c, name) == Contains(ConfigGet(c), name)

\* ------------------------------------------------------------ the registry
\* A configuration object as the code holds it: a reference and the content
\* it had when the reference was taken.  "config" is the caller's object,
\* which enable and disable edit in place; "new" is an object nobody else holds.
Object(ref, val) == [ref |-> ref, val |-> val]

\* the content of an object now
Deref(obj) == IF obj.ref = "config" THEN config ELSE obj.val

\* a registry that keeps the caller's object instead of a copy of it
deepcopy_alias(obj) == obj

deepcopy(obj) == Object("new", Deref(obj))

\* iter_enabled without the filter on the configuration
iter_enabled_all(self) == Plugins_iter_installed

\* iter_enabled with the test on the configuration inverted
iter_enabled_inverted(self) ==
    SelectSeq(Plugins_iter_installed,
              LAMBDA plugin : ~is_enabled(Deref(self.config), plugin.name))

\* the plugins of the catalog that self.config enables, in catalog order
iter_enabled(self) ==
    SelectSeq(Plugins_iter_installed,
              LAMBDA plugin : is_enabled(Deref(self.config), plugin.name))

\* index[key][plugin.name] = value for every key the plugin contributes to
Merge(index, name, contributed) ==
    [k \in DOMAIN index \cup DOMAIN contributed |->
        IF k \in DOMAIN contributed
        THEN DictSet(IF k \in DOMAIN index THEN index[k] ELSE <<>>,
                     name, contributed[k])
        ELSE index[k]]

\* one turn of the loop of Plugins.__init__
AddPlugin(self, plugin) ==
    [self EXCEPT
        !.patches = Merge(self.patches, plugin.name, plugin.patches),
        !.hooks = Merge(self.hooks, plugin.name, plugin.hooks),
        !.template_roots =
            IF plugin.templates_root # <<>>
            THEN DictSet(self.template_roots, plugin.name, plugin.templates_root)
            ELSE self.template_roots]

RECURSIVE AddPlugins(_, _)
AddPlugins(self, plugins) ==
    IF plugins = <<>> THEN self
    ELSE AddPlugins(AddPlugin(self, Head(plugins)), Tail(plugins))

\* A new object is never the object the cache still holds while it is built.
NewId(held) == IF held = None THEN 0 ELSE 1 - held.id

\* Plugins(config), built while the cache holds `held`
Plugins(c, held) ==
    LET self == [id |-> NewId(held),
                 config |-> deepcopy(c),
                 patches |-> <<>>,
                 hooks |-> <<>>,
                 template_roots |-> <<>>]
    IN AddPlugins(self, iter_enabled(self))

\* iter_patches yielding the contributions in the order they were stored
iter_patches_unsorted(self, name) ==
    IF name \in DOMAIN self.patches THEN self.patches[name] ELSE <<>>

iter_patches(self, name) ==
    LET plugin_patches == IF name \in DOMAIN self.patches THEN self.patches[name] ELSE <<>>
        plugins == Sort(DictKeys(plugin_patches))
    IN [i \in 1..Len(plugins) |-> <<plugins[i], DictGet(plugin_patches, plugins[i])>>]

\* iter_hooks yielding the pairs sorted by plugin name, as iter_patches does
iter_hooks_sorted(self, hook_name) ==
    LET plugin_hooks == IF hook_name \in DOMAIN self.hooks THEN self.hooks[hook_name] ELSE <<>>
        plugins == Sort(DictKeys(plugin_hooks))
    IN [i \in 1..Len(plugins) |-> <<plugins[i], DictGet(plugin_hooks, plugins[i])>>]

iter_hooks(self, hook_name) ==
    IF hook_name \in DOMAIN self.hooks THEN self.hooks[hook_name] ELSE <<>>

iter_template_roots(self) == self.template_roots

\* ------------------------------------------------------ enable and disable
\* enable without the final config[CONFIG_KEY].sort()
enable_no_sort(c, name) ==
    IF Plugins_iter_installed_raises THEN [config |-> c, raised |-> "ImportError"]
    ELSE IF ~is_installed(name) THEN [config |-> c, raised |-> "TutorError"]
    ELSE IF is_enabled(c, name) THEN [config |-> c, raised |-> "none"]
    ELSE LET created == IF ~c.has THEN [has |-> TRUE, plugins |-> <<>>] ELSE c
         IN [config |-> [created EXCEPT !.plugins = Append(@, name)], raised |-> "none"]

\* enable without the early return for a name already enabled
enable_no_check(c, name) ==
    IF Plugins_iter_installed_raises THEN [config |-> c, raised |-> "ImportError"]
    ELSE IF ~is_installed(name) THEN [config |-> c, raised |-> "TutorError"]
    ELSE LET created == IF ~c.has THEN [has |-> TRUE, plugins |-> <<>>] ELSE c
         IN [config |-> [created EXCEPT !.plugins = Sort(Append(@, name))],
             raised |-> "none"]

\* enable creating the PLUGINS list before it checks that the name is installed
enable_create_first(c, name) ==
    LET created == IF ~c.has THEN [has |-> TRUE, plugins |-> <<>>] ELSE c IN
    IF Plugins_iter_installed_raises THEN [config |-> created, raised |-> "ImportError"]
    ELSE IF ~is_installed(name) THEN [config |-> created, raised |-> "TutorError"]
    ELSE IF is_enabled(created, name) THEN [config |-> created, raised |-> "none"]
    ELSE [config |-> [created EXCEPT !.plugins = Sort(Append(@, name))],
          raised |-> "none"]

\* enable putting the list in order also when the name is already listed
enable_always_sorts(c, name) ==
    IF Plugins_iter_installed_raises THEN [config |-> c, raised |-> "ImportError"]
    ELSE IF ~is_installed(name) THEN [config |-> c, raised |-> "TutorError"]
    ELSE IF is_enabled(c, name)
         THEN [config |-> [c EXCEPT !.plugins = Sort(@)], raised |-> "none"]
    ELSE LET created == IF ~c.has THEN [has |-> TRUE, plugins |-> <<>>] ELSE c
             appended == [created EXCEPT !.plugins = Append(@, name)]
         IN [config |-> [appended EXCEPT !.plugins = Sort(@)], raised |-> "none"]

\* enable(config, name): the configuration it leaves and what it raised;
\* is_installed consumes the whole iteration, so it raises when that does
enable(c, name) ==
    IF Plugins_iter_installed_raises THEN [config |-> c, raised |-> "ImportError"]
    ELSE IF ~is_installed(name) THEN [config |-> c, raised |-> "TutorError"]
    ELSE IF is_enabled(c, name) THEN [config |-> c, raised |-> "none"]
    ELSE LET created == IF ~c.has THEN [has |-> TRUE, plugins |-> <<>>] ELSE c
             appended == [created EXCEPT !.plugins = Append(@, name)]
         IN [config |-> [appended EXCEPT !.plugins = Sort(@)], raised |-> "none"]

\* while name in config[CONFIG_KEY]: config[CONFIG_KEY].remove(name)
RECURSIVE RemoveWhileIn(_, _)
RemoveWhileIn(plugins, name) ==
    IF Contains(plugins, name) THEN RemoveWhileIn(RemoveFirst(plugins, name), name)
    ELSE plugins

\* disable with `if` in place of `while`: one occurrence removed
disable_once(c, name) ==
    IF ~c.has THEN [config |-> c, raised |-> "KeyError"]
    ELSE [config |-> [c EXCEPT !.plugins = RemoveFirst(@, name)], raised |-> "none"]

\* disable with the test inverted: every other name is removed
disable_inverted(c, name) ==
    IF ~c.has THEN [config |-> c, raised |-> "KeyError"]
    ELSE [config |-> [c EXCEPT !.plugins = SelectSeq(@, LAMBDA y : y = name)],
          raised |-> "none"]

\* disable reading config.get(CONFIG_KEY, []): a missing key is an empty list
disable_tolerant(c, name) ==
    IF ~c.has THEN [config |-> c, raised |-> "none"]
    ELSE [config |-> [c EXCEPT !.plugins = RemoveWhileIn(@, name)], raised |-> "none"]

disable(c, name) ==
    IF ~c.has THEN [config |-> c, raised |-> "KeyError"]
    ELSE [config |-> [c EXCEPT !.plugins = RemoveWhileIn(@, name)], raised |-> "none"]

\* cls.INSTANCE.config is not config: a new object is no other object
ConfigDiffers_identity(snapshot, c) ==
    snapshot.ref = "new" \/ c.ref = "new" \/ snapshot.ref # c.ref

\* cls.INSTANCE.config.keys() != config.keys()
ConfigDiffers_keys(snapshot, c) == Deref(snapshot).has # Deref(c).has

\* cls.INSTANCE.config != config: dict inequality, by content
ConfigDiffers(snapshot, c) == Deref(snapshot) # Deref(c)

\* Plugins.instance that publishes what was aggregated before the error
instance_publish_first(held, c) ==
    IF held = None \/ ConfigDiffers(held.config, c)
    THEN [cache |-> Plugins(c, held),
          raised |-> IF Plugins_iter_installed_raises THEN "ImportError" ELSE "none"]
    ELSE [cache |-> held, raised |-> "none"]

\* Plugins.instance that builds on every call
instance_rebuilds(held, c) ==
    IF Plugins_iter_installed_raises
    THEN [cache |-> held, raised |-> "ImportError"]
    ELSE [cache |-> Plugins(c, held), raised |-> "none"]

\* Plugins.instance(c) while the cache holds `held`: what the cache holds
\* afterwards and what the call raised.  cls(config) raises before the
\* assignment when the iteration of the catalog does.
instance(held, c) ==
    IF held = None \/ ConfigDiffers(held.config, c)
    THEN IF Plugins_iter_installed_raises
         THEN [cache |-> held, raised |-> "ImportError"]
         ELSE [cache |-> Plugins(c, held), raised |-> "none"]
    ELSE [cache |-> held, raised |-> "none"]

\* ---------------------------------------------------------------- actions
NoConfig == [has |-> FALSE, plugins |-> <<>>]

\* which object the cache holds and the snapshot stored in it
Identity(held) ==
    IF held = None THEN None ELSE [id |-> held.id, config |-> Deref(held.config)]

Call(op, name, raised, pre, cache, arg) ==
    [op |-> op, name |-> name, raised |-> raised, pre |-> pre, cache |-> cache,
     arg |-> arg]

\* a registration that records the name and leaves the load to the iteration
Register_lazy(name) ==
    /\ Len(INSTALLED) < MaxInstalled
    /\ INSTALLED' = Append(INSTALLED, OfficialPlugin(name))
    /\ last' = Call("register", 0, "none", NoConfig, None, "none")
    /\ UNCHANGED <<config, entrypoints, PluginsINSTANCE, lastOn, threads>>

\* OfficialPlugin.INSTALLED.append(OfficialPlugin(name)): the plugin object
\* is constructed, its module loaded, before it is added
Register(name) ==
    /\ Len(INSTALLED) < MaxInstalled
    /\ INSTALLED' = IF HasModule(name) THEN Append(INSTALLED, OfficialPlugin(name))
                    ELSE INSTALLED
    /\ last' = Call("register", IF HasModule(name) THEN 0 ELSE name,
                    IF HasModule(name) THEN "none" ELSE "ImportError",
                    NoConfig, None, "none")
    /\ UNCHANGED <<config, entrypoints, PluginsINSTANCE, lastOn, threads>>

\* a package advertising the tutor.plugin.v0 entrypoint is installed
InstallEntrypoint(name) ==
    /\ Len(entrypoints) < MaxEntrypoints
    /\ entrypoints' = Append(entrypoints, name)
    /\ last' = Call("install", 0, "none", NoConfig, None, "none")
    /\ UNCHANGED <<config, INSTALLED, PluginsINSTANCE, lastOn, threads>>

\* such a package is removed
UninstallEntrypoint(name) ==
    /\ Contains(entrypoints, name)
    /\ entrypoints' = RemoveFirst(entrypoints, name)
    /\ last' = Call("uninstall", 0, "none", NoConfig, None, "none")
    /\ UNCHANGED <<config, INSTALLED, PluginsINSTANCE, lastOn, threads>>

Enable(name) ==
    LET r == enable(config, name) IN
    /\ config' = r.config
    /\ last' = Call("enable", name, r.raised, config, None, "none")
    /\ lastOn' = IF r.raised = "none" THEN [lastOn EXCEPT ![name] = "enable"] ELSE lastOn
    /\ UNCHANGED <<INSTALLED, entrypoints, PluginsINSTANCE, threads>>

Disable(name) ==
    LET r == disable(config, name) IN
    /\ config' = r.config
    /\ last' = Call("disable", name, r.raised, config, None, "none")
    /\ lastOn' = IF r.raised = "none" THEN [lastOn EXCEPT ![name] = "disable"] ELSE lastOn
    /\ UNCHANGED <<INSTALLED, entrypoints, PluginsINSTANCE, threads>>

\* Plugins.instance(c), c being the caller's config object or a distinct
\* object deep-equal to it
PluginsInstance(arg) ==
    LET c == IF arg = "copy" THEN Object("new", config) ELSE Object("config", config)
        r == instance(PluginsINSTANCE, c)
    IN
    /\ PluginsINSTANCE' = r.cache
    /\ last' = Call("instance", 0, r.raised, NoConfig, Identity(PluginsINSTANCE), arg)
    /\ UNCHANGED <<config, INSTALLED, entrypoints, lastOn, threads>>

\* Plugins.clear() that forgets the registry and keeps the registered list
Clear_keeps_installed ==
    /\ PluginsINSTANCE' = None
    /\ INSTALLED' = INSTALLED
    /\ last' = Call("clear", 0, "none", NoConfig, Identity(PluginsINSTANCE), "none")
    /\ UNCHANGED <<config, entrypoints, lastOn, threads>>

\* Plugins.clear()
Clear ==
    /\ PluginsINSTANCE' = None
    /\ INSTALLED' = <<>>
    /\ last' = Call("clear", 0, "none", NoConfig, Identity(PluginsINSTANCE), "none")
    /\ UNCHANGED <<config, entrypoints, lastOn, threads>>

\* ------------------------------------------- threads in Plugins.instance
\* One thread's call of Plugins.instance(arg), cut where another thread can
\* run: after the test of the cache, after cls(config) has made the registry,
\* after the assignment to cls.INSTANCE, and after `return cls.INSTANCE` has
\* read the class attribute again.
Threads == {1, 2}

Idle == [pc |-> "idle", arg |-> NoConfig, built |-> None, ret |-> None]

\* the registries some reference still holds
Live ==
    {PluginsINSTANCE} \cup {threads[t].built : t \in Threads}
                      \cup {threads[t].ret : t \in Threads}

\* the identity of an object made now: one no live registry has
FreshId ==
    CHOOSE n \in 0..(2 * Cardinality(Threads) + 1) :
        /\ \A r \in Live : r # None => r.id # n
        /\ \A m \in 0..(n - 1) : \E r \in Live : r # None /\ r.id = m

\* a thread enters Plugins.instance(c) with a configuration object of its own
ThreadCall(t, c) ==
    /\ threads[t].pc \in {"idle", "done"}
    /\ threads' = [threads EXCEPT ![t] = [Idle EXCEPT !.pc = "check", !.arg = c]]
    /\ UNCHANGED <<config, INSTALLED, entrypoints, PluginsINSTANCE, last, lastOn>>

\* if cls.INSTANCE is None or cls.INSTANCE.config != config.  The test reads
\* the class attribute twice; a registry stored between the two reads is
\* the one compared, as if the whole test ran after that store.
ThreadCheck(t) ==
    /\ threads[t].pc = "check"
    /\ threads' = [threads EXCEPT ![t].pc =
           IF PluginsINSTANCE = None
              \/ ConfigDiffers(PluginsINSTANCE.config, Object("new", threads[t].arg))
           THEN "build" ELSE "return"]
    /\ UNCHANGED <<config, INSTALLED, entrypoints, PluginsINSTANCE, last, lastOn>>

\* cls(config): the registry is made, not yet assigned
ThreadBuild(t) ==
    /\ threads[t].pc = "build"
    /\ ~Plugins_iter_installed_raises
    /\ threads' = [threads EXCEPT
           ![t].pc = "store",
           ![t].built = [Plugins(Object("new", threads[t].arg), None)
                            EXCEPT !.id = FreshId]]
    /\ UNCHANGED <<config, INSTALLED, entrypoints, PluginsINSTANCE, last, lastOn>>

\* cls.INSTANCE = <the registry made>
ThreadStore(t) ==
    /\ threads[t].pc = "store"
    /\ PluginsINSTANCE' = threads[t].built
    /\ threads' = [threads EXCEPT ![t].pc = "return", ![t].built = None]
    /\ UNCHANGED <<config, INSTALLED, entrypoints, last, lastOn>>

\* return cls.INSTANCE
ThreadReturn(t) ==
    /\ threads[t].pc = "return"
    /\ threads' = [threads EXCEPT ![t].pc = "done", ![t].ret = PluginsINSTANCE]
    /\ UNCHANGED <<config, INSTALLED, entrypoints, PluginsINSTANCE, last, lastOn>>

BoundedSeq(S, n) == UNION {[1..k -> S] : k \in 0..n}

\* any configuration a user's file can hold: no PLUGINS key, or any list
AnyConfig ==
    {NoConfig} \cup {[has |-> TRUE, plugins |-> s] : s \in BoundedSeq(Names, MaxLen)}

\* the configurations enable and disable produce from an empty one: PLUGINS
\* absent, or a sorted duplicate-free list of names a plugin exists for
SortedConfig ==
    {c \in AnyConfig : /\ IsSorted(c.plugins)
                       /\ NoDuplicates(c.plugins)
                       /\ Range(c.plugins) \subseteq Packaged}

InitRest ==
    /\ INSTALLED = <<>>
    /\ entrypoints = <<>>
    /\ PluginsINSTANCE = None
    /\ last = Call("init", 0, "none", NoConfig, None, "none")
    /\ lastOn = [n \in Names |-> "none"]
    /\ threads = [t \in Threads |-> Idle]

\* a configuration the helpers have kept: PLUGINS absent or sorted, no duplicate
Init == config \in SortedConfig /\ InitRest

\* a configuration as a user may have written it
InitAny == config \in AnyConfig /\ InitRest

\* the threads pass configurations of their own: no shared one is edited
InitThreads == config = NoConfig /\ InitRest

Next ==
    \/ \E name \in Names : Register(name)
    \/ \E name \in Names : InstallEntrypoint(name)
    \/ \E name \in Names : UninstallEntrypoint(name)
    \/ \E name \in Packaged : Enable(name)
    \/ \E name \in Packaged : Disable(name)
    \/ \E arg \in {"config", "copy"} : PluginsInstance(arg)
    \/ Clear

\* the catalog and the configuration helpers alone, no registry being built,
\* on any name a configuration may list, every entrypoint loading
NextEdit ==
    \/ \E name \in Packaged : Register(name)
    \/ \E name \in Packaged : InstallEntrypoint(name)
    \/ \E name \in Packaged : UninstallEntrypoint(name)
    \/ \E name \in Names : Enable(name)
    \/ \E name \in Names : Disable(name)
    \/ Clear

\* enabling and querying on any configuration a user's file can hold, with
\* official plugins only
NextReuse ==
    \/ \E name \in Packaged : Register(name)
    \/ \E name \in Names : Enable(name)
    \/ \E arg \in {"config", "copy"} : PluginsInstance(arg)

\* two threads calling Plugins.instance, each with a configuration of its
\* own, while official plugins get registered
NextThreads ==
    \/ \E name \in Packaged : Register(name)
    \/ \E t \in Threads, c \in SortedConfig : ThreadCall(t, c)
    \/ \E t \in Threads : ThreadCheck(t)
    \/ \E t \in Threads : ThreadBuild(t)
    \/ \E t \in Threads : ThreadStore(t)
    \/ \E t \in Threads : ThreadReturn(t)

\* official plugins get registered, the configuration is edited and the
\* registry queried; the cache is never cleared
NextRegistered ==
    \/ \E name \in Packaged : Register(name)
    \/ \E name \in Packaged : Enable(name)
    \/ \E name \in Packaged : Disable(name)
    \/ \E arg \in {"config", "copy"} : PluginsInstance(arg)

Spec == Init /\ [][Next]_vars

SpecRegistered == Init /\ [][NextRegistered]_vars

SpecThreads == InitThreads /\ [][NextThreads]_vars

SpecReuse == InitAny /\ [][NextReuse]_vars

SpecEdit == InitAny /\ [][NextEdit]_vars

TypeOK ==
    /\ config \in [has : BOOLEAN, plugins : Seq(Names)]
    /\ last.op \in {"init", "register", "install", "uninstall", "enable", "disable",
                    "instance", "clear"}
    /\ \A t \in Threads :
          threads[t].pc \in {"idle", "check", "build", "store", "return", "done"}

\* ================================================================ claims
\* What the catalog holds, stated without the iteration: the names installed
\* by either source, and for each the plugin that stands for it.
OfficialNames == {INSTALLED[i].name : i \in 1..Len(INSTALLED)}

EntrypointNames == Range(entrypoints)

InstalledNames == OfficialNames \cup EntrypointNames

CatalogPlugin(name) ==
    IF name \in OfficialNames THEN OfficialPlugin(name) ELSE EntrypointPlugin(name)

\* the installed plugins that configuration content c enables
Contributors(c) == {name \in InstalledNames : is_enabled(c, name)}

ExpectedPatches(c, X) ==
    {<<name, CatalogPlugin(name).patches[X]>> :
        name \in {n \in Contributors(c) : X \in DOMAIN CatalogPlugin(n).patches}}

ExpectedHooks(c, H) ==
    {<<name, CatalogPlugin(name).hooks[H]>> :
        name \in {n \in Contributors(c) : H \in DOMAIN CatalogPlugin(n).hooks}}

ExpectedTemplateRoots(c) ==
    {<<name, CatalogPlugin(name).templates_root>> :
        name \in {n \in Contributors(c) : CatalogPlugin(n).templates_root # <<>>}}

\* the last call was Plugins.instance and it built the registry the cache holds
FreshlyBuilt ==
    /\ last.op = "instance"
    /\ PluginsINSTANCE # None
    /\ (last.cache = None \/ last.cache.id # PluginsINSTANCE.id)

Reverse(s) == [i \in 1..Len(s) |-> s[Len(s) + 1 - i]]

StrictlyAscendingNames(pairs) ==
    \A i \in 1..(Len(pairs) - 1) : pairs[i][1] < pairs[i + 1][1]

\* C1: for every patch name X, iter_patches(X) of a registry just built from
\* the configuration yields exactly one (pluginName, content) pair for each
\* installed and enabled plugin that contributes to X, in strictly ascending
\* pluginName order, whatever the order of the catalog; and a configuration
\* listing the same plugins in the opposite order yields the same sequence.
C1_PatchOrder ==
    FreshlyBuilt =>
        \A X \in PatchNames :
            LET pairs == iter_patches(PluginsINSTANCE, X)
                opposite == Object("new", [config EXCEPT !.plugins = Reverse(@)])
            IN /\ Range(pairs) = ExpectedPatches(config, X)
               /\ StrictlyAscendingNames(pairs)
               /\ iter_patches(Plugins(opposite, None), X) = pairs

\* C1's case: two plugins patch "p1" and were stored in descending name order
C1_Witness ==
    /\ FreshlyBuilt
    /\ "p1" \in DOMAIN PluginsINSTANCE.patches
    /\ DictKeys(PluginsINSTANCE.patches["p1"]) = <<2, 1>>
    /\ DictKeys(iter_patches(PluginsINSTANCE, "p1")) = <<1, 2>>

\* C2: iter_installed yields at most one descriptor per plugin name; a name
\* that is both officially registered and entrypoint-discovered is yielded
\* as the official plugin; every official descriptor comes before every
\* entrypoint descriptor.
C2_Dedup ==
    LET yielded == Plugins_iter_installed IN
    /\ \A i, j \in 1..Len(yielded) : yielded[i].name = yielded[j].name => i = j
    /\ \A i \in 1..Len(yielded) :
          yielded[i].name \in OfficialNames => yielded[i].class = "OfficialPlugin"
    /\ \A i, j \in 1..Len(yielded) :
          yielded[i].class = "OfficialPlugin" /\ yielded[j].class = "EntrypointPlugin"
              => i < j

\* C2's case: an entrypoint shares its name with an official plugin and
\* another entrypoint-only or official-only plugin is installed as well
C2_Witness ==
    /\ OfficialNames \cap EntrypointNames # {}
    /\ Len(Plugins_iter_installed) >= 1
    /\ Len(Plugins_iter_installed) < Len(INSTALLED) + Len(entrypoints)
    /\ last.op \in {"instance", "enable"}

\* what a registry holds, as sets of (pluginName, value) pairs
RegistryPatches(self, X) ==
    IF X \in DOMAIN self.patches THEN Range(self.patches[X]) ELSE {}

RegistryHooks(self, H) ==
    IF H \in DOMAIN self.hooks THEN Range(self.hooks[H]) ELSE {}

EnabledNames(self) == {p.name : p \in Range(iter_enabled(self))}

\* the registry aggregates exactly what content c enables in the catalog
Reflects(self, c) ==
    /\ Deref(self.config) = c
    /\ EnabledNames(self) = Contributors(c)
    /\ \A X \in PatchNames : RegistryPatches(self, X) = ExpectedPatches(c, X)
    /\ \A H \in HookNames : RegistryHooks(self, H) = ExpectedHooks(c, H)
    /\ Range(self.template_roots) = ExpectedTemplateRoots(c)

\* C3: when Plugins.instance is called with a configuration deep-equal to the
\* snapshot of the registry the cache holds (the same object or a distinct
\* one), it returns that very registry object; the cache holds another object
\* afterwards only if it was empty or its snapshot differed from the argument.
\* After every call that returns the cached snapshot is deep-equal to the
\* argument; a call answered by the cache loads nothing and cannot raise.
C3_CacheHit ==
    last.op = "instance" =>
        /\ (last.raised = "none" =>
               PluginsINSTANCE # None /\ Deref(PluginsINSTANCE.config) = config)
        /\ (last.cache # None /\ last.cache.config = config
               => last.raised = "none" /\ PluginsINSTANCE.id = last.cache.id)
        /\ (last.cache # None /\ PluginsINSTANCE.id # last.cache.id
               => last.cache.config # config)

\* C3's case: a second call with a distinct deep-equal object, plugins enabled
C3_Witness ==
    /\ last.op = "instance"
    /\ last.arg = "copy"
    /\ last.cache # None
    /\ last.cache.config = config
    /\ PluginsINSTANCE.id = last.cache.id
    /\ Contributors(config) # {}

\* C4: when the configuration's content differs from the cached snapshot (it
\* was mutated, in place or not, since the registry was built), the next
\* Plugins.instance(config) that returns, returns a newly built registry
\* whose iter_enabled(), patches, hooks and template roots are those of the
\* plugins the new content enables.
C4_RebuildOnChange ==
    /\ last.op = "instance" /\ last.raised = "none"
    /\ last.cache # None /\ last.cache.config # config
    =>  /\ PluginsINSTANCE # None
        /\ PluginsINSTANCE.id # last.cache.id
        /\ Reflects(PluginsINSTANCE, config)

\* C4's case: the caller's own object was edited in place by enable or
\* disable, and the plugins it enables changed
C4_Witness ==
    /\ last.op = "instance"
    /\ last.raised = "none"
    /\ last.arg = "config"
    /\ last.cache # None
    /\ last.cache.config.has /\ config.has
    /\ Contributors(last.cache.config) # Contributors(config)
    /\ Contributors(config) # {}
    /\ PluginsINSTANCE.id # last.cache.id

\* C5 as claimed: for every configuration and every installed plugin name P,
\* after enable(C, P) P is enabled, C[PLUGINS] is sorted ascending and P
\* occurs in it exactly once.
C5_AsClaimed ==
    last.op = "enable" /\ is_installed(last.name) =>
        /\ last.raised = "none"
        /\ is_enabled(config, last.name)
        /\ IsSorted(config.plugins)
        /\ Count(config.plugins, last.name) = 1

\* C5, amended: for every configuration and every installed plugin name P,
\* after enable(C, P) P is enabled; when P was not listed before the call,
\* C[PLUGINS] is sorted ascending and P occurs in it exactly once; when P was
\* already listed, C is left exactly as it was.
C5_EnableSorts ==
    last.op = "enable" /\ is_installed(last.name) =>
        /\ last.raised = "none"
        /\ is_enabled(config, last.name)
        /\ (~is_enabled(last.pre, last.name) =>
               /\ IsSorted(config.plugins)
               /\ Count(config.plugins, last.name) = 1
               /\ \A Q \in Names \ {last.name} :
                      Count(config.plugins, Q) = Count(last.pre.plugins, Q))
        /\ (is_enabled(last.pre, last.name) => config = last.pre)

\* C5's case: P is installed and not listed, and the list was not sorted
C5_Witness ==
    /\ last.op = "enable"
    /\ is_installed(last.name)
    /\ last.pre.has
    /\ ~is_enabled(last.pre, last.name)
    /\ ~IsSorted(last.pre.plugins)
    /\ IsSorted(config.plugins)
    /\ Len(config.plugins) = Len(last.pre.plugins) + 1

\* C6: enable(config, name) with a name that is not in the catalog raises the
\* not-installed error and leaves config exactly as it was: no PLUGINS key is
\* created, an existing list is neither extended nor reordered, also when
\* the name is already listed.
C6_NotInstalled ==
    last.op = "enable" /\ ~is_installed(last.name) =>
        /\ last.raised = "TutorError"
        /\ config = last.pre

\* C6's case: the name is listed in an unsorted PLUGINS list and not installed
C6_Witness ==
    /\ last.op = "enable"
    /\ last.raised = "TutorError"
    /\ ~is_installed(last.name)
    /\ is_enabled(last.pre, last.name)
    /\ ~IsSorted(last.pre.plugins)
    /\ InstalledNames # {}

\* C7: on a config that has a PLUGINS key, disable(config, name) returns
\* without error and leaves the list without any occurrence of name, every
\* other element kept with its multiplicity and in its relative order.
C7_DisableRemovesAll ==
    last.op = "disable" /\ last.pre.has =>
        /\ last.raised = "none"
        /\ config.has
        /\ config.plugins = Without(last.pre.plugins, last.name)

\* C7's case: PLUGINS = [A, A, B], disable A gives [B]
C7_Witness ==
    /\ last.op = "disable"
    /\ last.name = 1
    /\ last.pre = [has |-> TRUE, plugins |-> <<1, 1, 2>>]
    /\ config = [has |-> TRUE, plugins |-> <<2>>]

\* C8: a plugin whose last returned operation was enable is enabled and one
\* whose last returned operation was disable is not, whatever was done to
\* other plugins in between; an operation on P leaves the membership of every
\* other plugin as it was; repeating an operation (enable of an enabled
\* plugin, disable of one not enabled) changes nothing.
C8_LastOperationWins ==
    /\ \A P \in Names :
          /\ lastOn[P] = "enable" => is_enabled(config, P)
          /\ lastOn[P] = "disable" => ~is_enabled(config, P)
    /\ last.op \in {"enable", "disable"} =>
          /\ \A Q \in Names \ {last.name} :
                is_enabled(config, Q) = is_enabled(last.pre, Q)
          /\ (last.op = "enable" /\ last.raised = "none"
                  /\ is_enabled(last.pre, last.name) => config = last.pre)
          /\ (last.op = "disable" /\ last.raised = "none"
                  /\ ~is_enabled(last.pre, last.name) => config = last.pre)

\* C8's case: A was enabled, then B was enabled and disabled again
C8_Witness ==
    /\ lastOn[1] = "enable"
    /\ lastOn[2] = "disable"
    /\ last.op = "disable"
    /\ last.name = 2
    /\ is_enabled(last.pre, 2)
    /\ is_enabled(config, 1)
    /\ ~is_enabled(config, 2)

\* C9: starting from a config whose PLUGINS key is absent or holds a sorted
\* duplicate-free list, after any sequence of enable and disable calls,
\* returning or raising, config[PLUGINS] when present is sorted ascending and
\* holds no name twice.
C9_SortedNoDuplicates ==
    config.has => IsSorted(config.plugins) /\ NoDuplicates(config.plugins)

\* C9's case: enable put a name before one already listed
C9_Witness ==
    /\ last.op = "enable"
    /\ last.raised = "none"
    /\ last.pre.plugins = <<2>>
    /\ config.plugins = <<1, 2>>

\* C10: disable(config, name) on a config without a PLUGINS key raises the
\* missing-key error and leaves config as it was, the key not created;
\* enable(config, name) of an installed name on such a config returns and
\* leaves PLUGINS = [name].
C10_MissingKey ==
    /\ last.op = "disable" /\ ~last.pre.has =>
          last.raised = "KeyError" /\ config = last.pre
    /\ last.op = "enable" /\ ~last.pre.has /\ is_installed(last.name) =>
          /\ last.raised = "none"
          /\ config = [has |-> TRUE, plugins |-> <<last.name>>]

\* C10's case: disable raised on a config without the key, for a name that
\* enable would accept on the same config
C10_Witness ==
    /\ last.op = "disable"
    /\ last.raised = "KeyError"
    /\ ~config.has
    /\ is_installed(last.name)
    /\ enable(config, last.name).config.has

\* the official plugins the catalog yields now
OfficialYielded ==
    {p \in Range(Plugins_iter_installed) : p.class = "OfficialPlugin"}

\* C11: Plugins.clear() leaves the cache empty and the officially-registered
\* list empty, so that iter_installed() yields no official plugin (the
\* official plugins it yields are always members of the registered list);
\* and a Plugins.instance(config) that finds the cache empty never answers
\* from a previous registry: when it returns, the cache holds a registry built
\* from config against the catalog of that moment.
C11_ClearResets ==
    /\ last.op = "clear" =>
          /\ PluginsINSTANCE = None
          /\ INSTALLED = <<>>
          /\ OfficialYielded = {}
    /\ OfficialYielded \subseteq Range(INSTALLED)
    /\ last.op = "instance" /\ last.cache = None /\ last.raised = "none" =>
          /\ PluginsINSTANCE # None
          /\ Reflects(PluginsINSTANCE, config)

\* C11's case: clear() dropped a registry whose snapshot is deep-equal to the
\* configuration, which lists plugins
C11_Witness ==
    /\ last.op = "clear"
    /\ last.cache # None
    /\ last.cache.config = config
    /\ config.has /\ config.plugins # <<>>
    /\ PluginsINSTANCE = None
    /\ INSTALLED = <<>>

\* C12: registry construction is atomic.  When the build started by
\* Plugins.instance(config) raises because a plugin fails to load, the error
\* reaches the caller and the cache holds exactly what it held before the
\* call, the previous registry or nothing; the cache changes in a call only
\* when the call returns, and then to a registry aggregated from every
\* enabled plugin of the catalog.
C12_AtomicBuild ==
    [][last'.op = "instance" =>
          /\ (last'.raised # "none" => PluginsINSTANCE' = PluginsINSTANCE)
          /\ (PluginsINSTANCE' # PluginsINSTANCE =>
                 /\ last'.raised = "none"
                 /\ Reflects(PluginsINSTANCE', config'))
          /\ ((PluginsINSTANCE = None \/ Deref(PluginsINSTANCE.config) # config)
                 /\ Plugins_iter_installed_raises
              => last'.raised = "ImportError")]_vars

\* C12's case: a build raised after an enabled plugin had been yielded, and
\* the cache still holds the registry built before
C12_Witness ==
    /\ last.op = "instance"
    /\ last.raised = "ImportError"
    /\ last.cache # None
    /\ PluginsINSTANCE # None
    /\ Identity(PluginsINSTANCE) = last.cache
    /\ \E p \in Range(Plugins_iter_installed) : is_enabled(config, p.name)

\* C13: the snapshot a registry stores is a deep copy.  enable and disable
\* edit the caller's configuration object in place (the same PLUGINS list
\* gains or loses names); whatever they do, the registry the cache holds is
\* left as it was: the content of its snapshot, its patches, its hooks and
\* its template roots are unchanged.
C13_SnapshotIsolated ==
    [][last'.op \in {"enable", "disable"} /\ PluginsINSTANCE # None =>
          /\ PluginsINSTANCE' = PluginsINSTANCE
          /\ Deref(PluginsINSTANCE.config)' = Deref(PluginsINSTANCE.config)
          /\ PluginsINSTANCE'.patches = PluginsINSTANCE.patches
          /\ PluginsINSTANCE'.hooks = PluginsINSTANCE.hooks
          /\ PluginsINSTANCE'.template_roots = PluginsINSTANCE.template_roots]_vars

\* C13's case: the registry was built from the caller's own object, which
\* enable then edited in place; the snapshot still holds the content of
\* before the edit
C13_Witness ==
    /\ last.op = "enable"
    /\ last.raised = "none"
    /\ config # last.pre
    /\ PluginsINSTANCE # None
    /\ Deref(PluginsINSTANCE.config) = last.pre
    /\ Deref(PluginsINSTANCE.config) # config

\* the plugin names a registry aggregated contributions of
AggregatedNames(self) ==
    UNION {{pair[1] : pair \in Range(self.patches[X])} : X \in DOMAIN self.patches}
    \cup UNION {{pair[1] : pair \in Range(self.hooks[H])} : H \in DOMAIN self.hooks}
    \cup {pair[1] : pair \in Range(self.template_roots)}

\* C14 as claimed: at every point where the cache holds a registry and the
\* catalog can be iterated, the names iter_enabled() yields are the names of
\* the plugins whose contributions the registry aggregated.
C14_AsClaimed ==
    PluginsINSTANCE # None /\ ~Plugins_iter_installed_raises =>
        EnabledNames(PluginsINSTANCE) = AggregatedNames(PluginsINSTANCE)

\* C14: iter_enabled() of a registry filters the catalog of the moment of the
\* call by the registry's snapshot: it yields, in catalog order, the plugins
\* installed now that the snapshot lists.  The names are those of the
\* plugins aggregated into the registry when the registry was just built;
\* after a plugin is registered or an entrypoint removed they need not be.
C14_EnabledIsLiveFilter ==
    PluginsINSTANCE # None /\ ~Plugins_iter_installed_raises =>
        /\ iter_enabled(PluginsINSTANCE) =
              SelectSeq(Plugins_iter_installed,
                        LAMBDA p : Contains(ConfigGet(Deref(PluginsINSTANCE.config)),
                                            p.name))
        /\ EnabledNames(PluginsINSTANCE) =
              Contributors(Deref(PluginsINSTANCE.config))
        /\ (FreshlyBuilt =>
              EnabledNames(PluginsINSTANCE) = AggregatedNames(PluginsINSTANCE))

\* C14's case: the catalog changed after the registry was built, and
\* iter_enabled() yields a plugin the registry aggregated nothing of
C14_Witness ==
    /\ PluginsINSTANCE # None
    /\ ~Plugins_iter_installed_raises
    /\ last.op = "register"
    /\ EnabledNames(PluginsINSTANCE) \ AggregatedNames(PluginsINSTANCE) # {}
    /\ AggregatedNames(PluginsINSTANCE) # {}

\* the (pluginName, services) pairs of hook H in the order of the catalog,
\* for the plugins that configuration content c enables
HooksInCatalogOrder(c, H) ==
    LET contributing ==
            SelectSeq(Plugins_iter_installed,
                      LAMBDA p : is_enabled(c, p.name) /\ H \in DOMAIN p.hooks)
    IN [i \in 1..Len(contributing) |->
           <<contributing[i].name, contributing[i].hooks[H]>>]

\* C15: for every hook name H, iter_hooks(H) of a registry just built from the
\* configuration yields exactly one (pluginName, services) pair for each
\* installed and enabled plugin that contributes to H, in the order the
\* catalog yielded the plugins at construction (official plugins in
\* registration order, then entrypoint plugins): not sorted by name, and the
\* same whatever the order of the names in config[PLUGINS].
C15_HookOrder ==
    FreshlyBuilt =>
        \A H \in HookNames :
            LET pairs == iter_hooks(PluginsINSTANCE, H)
                opposite == Object("new", [config EXCEPT !.plugins = Reverse(@)])
            IN /\ pairs = HooksInCatalogOrder(config, H)
               /\ Range(pairs) = ExpectedHooks(config, H)
               /\ \A i, j \in 1..Len(pairs) : pairs[i][1] = pairs[j][1] => i = j
               /\ iter_hooks(Plugins(opposite, None), H) = pairs

\* C15's case: two plugins hook "init", the catalog yields them in
\* descending name order and the configuration lists them ascending
C15_Witness ==
    /\ FreshlyBuilt
    /\ config.has /\ config.plugins = <<1, 2>>
    /\ DictKeys(iter_hooks(PluginsINSTANCE, "init")) = <<2, 1>>

\* C16 as claimed: once a name whose module cannot be located has been
\* registered with the official source, iterating the catalog raises.
C16_AsClaimed ==
    last.op = "register" /\ last.name \in Names /\ ~HasModule(last.name) =>
        Plugins_iter_installed_raises

\* C16: the module of an official plugin is loaded when the plugin object is
\* constructed, before it is added to the registered list.  For a name whose
\* module cannot be located the error is raised to the code that registers,
\* and nothing is added: the list holds loaded plugins only.  The official
\* source yields the list as it is and loads nothing, so the catalog
\* iteration raises exactly when the object of an entrypoint fails to load.
C16_LoadAtRegistration ==
    /\ last.op = "register" =>
          \/ last.raised = "none" /\ last.name = 0
          \/ last.raised = "ImportError" /\ last.name \in Names /\ ~HasModule(last.name)
    /\ \A i \in 1..Len(INSTALLED) :
          /\ HasModule(INSTALLED[i].name)
          /\ INSTALLED[i] = OfficialPlugin(INSTALLED[i].name)
    /\ OfficialPlugin_iter_installed = INSTALLED
    /\ Plugins_iter_installed_raises <=> \E e \in Range(entrypoints) : ~Loads(e)

\* C16's case: registering a name without a module has just raised, plugins
\* are registered, and the catalog is iterated without error
C16_Witness ==
    /\ last.op = "register"
    /\ last.raised = "ImportError"
    /\ last.name \in Names /\ ~HasModule(last.name)
    /\ INSTALLED # <<>>
    /\ ~Plugins_iter_installed_raises
    /\ Len(Plugins_iter_installed) >= Len(INSTALLED)

\* C17: enable(config, name) for an installed name that config[PLUGINS]
\* already lists, once or more, in a sorted list or not, raises nothing and
\* leaves the configuration exactly as it was; the cached registry is not
\* touched, and when its snapshot was deep-equal to the configuration before
\* the call, the Plugins.instance(config) that follows returns that same
\* registry without building.
C17_EnableNoop ==
    [][/\ (/\ last'.op = "enable"
           /\ ~Plugins_iter_installed_raises
           /\ is_installed(last'.name)
           /\ is_enabled(config, last'.name)
           => /\ last'.raised = "none"
              /\ config' = config
              /\ PluginsINSTANCE' = PluginsINSTANCE)
       /\ (/\ last.op = "enable"
           /\ last.raised = "none"
           /\ config = last.pre
           /\ PluginsINSTANCE # None
           /\ Deref(PluginsINSTANCE.config) = last.pre
           /\ last'.op = "instance"
           => /\ last'.raised = "none"
              /\ PluginsINSTANCE' = PluginsINSTANCE)]_vars

\* C17's case: enable was called for an installed name listed twice in a
\* list that is not sorted, it changed nothing, and the cache holds a
\* registry built from that configuration
C17_Witness ==
    /\ last.op = "enable"
    /\ last.raised = "none"
    /\ is_installed(last.name)
    /\ config = last.pre
    /\ ~IsSorted(config.plugins)
    /\ Count(config.plugins, last.name) = 2
    /\ PluginsINSTANCE # None
    /\ Deref(PluginsINSTANCE.config) = config
    /\ AggregatedNames(PluginsINSTANCE) # {}

\* the registry was aggregated to the end: it holds the contributions of
\* every installed plugin its snapshot enables
FullyConstructed(self) ==
    /\ \A X \in PatchNames :
          RegistryPatches(self, X) \subseteq ExpectedPatches(Deref(self.config), X)
    /\ \A H \in HookNames :
          RegistryHooks(self, H) \subseteq ExpectedHooks(Deref(self.config), H)
    /\ Range(self.template_roots) \subseteq ExpectedTemplateRoots(Deref(self.config))
    /\ \A name \in AggregatedNames(self) :
          /\ \A X \in DOMAIN CatalogPlugin(name).patches :
                <<name, CatalogPlugin(name).patches[X]>> \in RegistryPatches(self, X)
          /\ \A H \in DOMAIN CatalogPlugin(name).hooks :
                <<name, CatalogPlugin(name).hooks[H]>> \in RegistryHooks(self, H)

\* C18 as claimed: when two threads call Plugins.instance concurrently, every
\* call that has returned holds a fully constructed registry whose snapshot
\* is deep-equal to the configuration that call passed, also when the two
\* threads pass different configurations.
C18_AsClaimed ==
    \A t \in Threads :
        threads[t].pc = "done" =>
            /\ threads[t].ret # None
            /\ FullyConstructed(threads[t].ret)
            /\ Deref(threads[t].ret.config) = threads[t].arg

\* the indices of the registry are those of a registry built now from
\* configuration content c
IndicesOfFreshBuild(self, c) ==
    LET fresh == Plugins(Object("new", c), None) IN
    /\ self.patches = fresh.patches
    /\ self.hooks = fresh.hooks
    /\ self.template_roots = fresh.template_roots

\* C19 as claimed: after any sequence of registrations, enable and disable
\* calls and Plugins.instance calls, the registry Plugins.instance(config)
\* returns has the indices a build from config against the catalog of now
\* would produce.
C19_AsClaimed ==
    last.op = "instance" /\ last.raised = "none" =>
        IndicesOfFreshBuild(PluginsINSTANCE, config)

\* C19: the cache is keyed by the configuration alone.  A call of
\* Plugins.instance(config) that finds a registry whose snapshot is
\* deep-equal to config returns that registry as it is, whatever was
\* registered since it was built; any other call that returns has built a
\* registry whose indices are those of a build from config against the
\* catalog of now.  With a catalog of officially registered plugins, the
\* names a cached registry aggregated are among the plugins registered now
\* that its snapshot lists.
C19_CacheKeyedByConfig ==
    [][/\ last'.op = "instance" =>
             IF PluginsINSTANCE # None /\ Deref(PluginsINSTANCE.config) = config
             THEN PluginsINSTANCE' = PluginsINSTANCE /\ last'.raised = "none"
             ELSE last'.raised = "none" =>
                     IndicesOfFreshBuild(PluginsINSTANCE', config')
       /\ PluginsINSTANCE' # None =>
             AggregatedNames(PluginsINSTANCE')
                 \subseteq {name \in OfficialNames' :
                               is_enabled(Deref(PluginsINSTANCE.config)', name)}]_vars

\* C19's case: a plugin the configuration lists was registered after the
\* registry was cached, and the next Plugins.instance(config) returned the
\* cached registry, without the contributions of that plugin
C19_Witness ==
    /\ last.op = "instance"
    /\ last.cache # None
    /\ last.cache.config = config
    /\ PluginsINSTANCE.id = last.cache.id
    /\ AggregatedNames(PluginsINSTANCE) # {}
    /\ Contributors(config) \ AggregatedNames(PluginsINSTANCE) # {}
    /\ ~IndicesOfFreshBuild(PluginsINSTANCE, config)

\* C20: every plugin name a registry holds a patch, a hook or a template root
\* of is listed in the PLUGINS of the registry's snapshot.  In a registry
\* just built the contributors are exactly the listed names installed at
\* that moment, each with all it contributes: a listed name that is not
\* installed contributes nothing and the build raises nothing for it, and
\* an installed plugin that is not listed contributes nothing.
C20_ContributorsListed ==
    /\ PluginsINSTANCE # None =>
          AggregatedNames(PluginsINSTANCE)
              \subseteq Range(ConfigGet(Deref(PluginsINSTANCE.config)))
    /\ FreshlyBuilt =>
          /\ AggregatedNames(PluginsINSTANCE) =
                InstalledNames \cap Range(ConfigGet(config))
          /\ FullyConstructed(PluginsINSTANCE)
    /\ last.op = "instance" /\ ~Plugins_iter_installed_raises =>
          last.raised = "none"

\* C20's case: a registry was just built from a configuration that lists an
\* installed plugin and a name that is not installed, while another
\* installed plugin is not listed
C20_Witness ==
    /\ FreshlyBuilt
    /\ last.raised = "none"
    /\ AggregatedNames(PluginsINSTANCE) # {}
    /\ Range(ConfigGet(config)) \ InstalledNames # {}
    /\ InstalledNames \ Range(ConfigGet(config)) # {}

====
